---- MODULE Spec2Model ----
(***************************************************************************)
(* State-machine model of the OpenHands Resolver MCP orchestration core:   *)
(*   - the Configuration Manager   (modules/configuration)                 *)
(*   - the Trigger Detector        (modules/trigger_detection)             *)
(*   - the Entry Coordinator and the single-issue pipeline (src/index.js)  *)
(*   - the Batch Scheduler         (modules/batch_processing)              *)
(*                                                                         *)
(* JavaScript values are tagged records so that values of different types  *)
(* can be compared: [n |-> t] is the number t/10 (one decimal digit is     *)
(* kept, so 0.2 is [n |-> 2] and 4000 is [n |-> 40000]), [s |-> "x"] a      *)
(* string, [b |-> TRUE] a boolean, [l |-> <<..>>] an array, [o |-> m] an    *)
(* object owned by its holder, [u |-> 0] undefined, [null |-> 0] null and  *)
(* [nan |-> 0] NaN. [t |-> <<..>>] is a string given as the sequence of    *)
(* its pieces.                                                             *)
(***************************************************************************)
EXTENDS Integers, Sequences, FiniteSets, TLC

(***************************************************************************)
(* Bounds of the model                                                     *)
(***************************************************************************)
\* calls of the exported functions made by the host over one run
MaxCalls == 2
\* single-issue pipelines started over one run
MaxPipes == 3
\* operations on the Configuration Manager over one run of SpecConfig
MaxCfgOps == 3
\* tokens of an input text handed to detectTrigger in SpecTrigger
MaxTextLen == 3

(***************************************************************************)
(* JavaScript values                                                       *)
(***************************************************************************)
Undef == [u |-> 0]
Null == [null |-> 0]
NaN == [nan |-> 0]
\* the number t/10
Num(t) == [n |-> t]
\* the whole number i
Whole(i) == [n |-> 10 * i]
Str(s) == [s |-> s]
Bool(b) == [b |-> b]
List(l) == [l |-> l]
Obj(m) == [o |-> m]
\* a string given by its pieces, in order
Text(ps) == [t |-> ps]

IsNum(v) == DOMAIN v = {"n"}
IsStr(v) == DOMAIN v = {"s"}
IsBool(v) == DOMAIN v = {"b"}
IsList(v) == DOMAIN v = {"l"}
IsObj(v) == DOMAIN v = {"o"}
IsText(v) == DOMAIN v = {"t"}
IsNullish(v) == v = Undef \/ v = Null

\* JavaScript truthiness (ToBoolean)
Truthy(v) ==
  CASE IsNum(v) -> v.n # 0
    [] IsStr(v) -> v.s # ""
    [] IsText(v) -> v.t # << >>
    [] IsBool(v) -> v.b
    [] IsNullish(v) -> FALSE
    [] v = NaN -> FALSE
    [] OTHER -> TRUE

\* JavaScript ToNumber, for the operands of < and >. String settings of the
\* model are non-numeric text (or empty); arrays of the model are non-empty
\* lists of text.
ToNumber(v) ==
  CASE IsNum(v) -> v
    [] IsBool(v) -> IF v.b THEN Whole(1) ELSE Whole(0)
    [] v = Null -> Whole(0)
    [] IsStr(v) -> IF v.s = "" THEN Whole(0) ELSE NaN
    [] OTHER -> NaN

\* a < b and a > b of JavaScript: false as soon as one side is NaN
JsLess(a, b) ==
  LET x == ToNumber(a)
      y == ToNumber(b)
  IN  IsNum(x) /\ IsNum(y) /\ x.n < y.n

JsGreater(a, b) == JsLess(b, a)

(***************************************************************************)
(* Strings that the code parses are sequences of one-character strings.    *)
(* The alphabet of the model has no exponent letter, so parseFloat's       *)
(* exponent part is not modelled, and only the first decimal digit of a    *)
(* fraction is kept.                                                       *)
(***************************************************************************)
Digits == {"0", "1", "2", "3", "4", "5", "6", "7", "8", "9"}

DigitVal(c) ==
  CASE c = "0" -> 0 [] c = "1" -> 1 [] c = "2" -> 2 [] c = "3" -> 3
    [] c = "4" -> 4 [] c = "5" -> 5 [] c = "6" -> 6 [] c = "7" -> 7
    [] c = "8" -> 8 [] c = "9" -> 9

\* index of the first character of cs at or after i that is not in set
\* (Len(cs) + 1 when there is none)
RECURSIVE SkipWhile(_, _, _)
SkipWhile(cs, i, set) ==
  IF i <= Len(cs) /\ cs[i] \in set THEN SkipWhile(cs, i + 1, set) ELSE i

\* value of the digit string cs[i..j-1], most significant digit first
RECURSIVE DigitsValue(_, _, _, _)
DigitsValue(cs, i, j, acc) ==
  IF i >= j THEN acc ELSE DigitsValue(cs, i + 1, j, 10 * acc + DigitVal(cs[i]))

\* parseInt(cs, 10): leading blanks, an optional sign, then the longest run
\* of digits; NaN when that run is empty
ParseInt(cs) ==
  LET a == SkipWhile(cs, 1, {" "})
      neg == a <= Len(cs) /\ cs[a] = "-"
      b == IF a <= Len(cs) /\ cs[a] \in {"+", "-"} THEN a + 1 ELSE a
      c == SkipWhile(cs, b, Digits)
      v == DigitsValue(cs, b, c, 0)
  IN  IF c = b THEN NaN ELSE Whole(IF neg THEN 0 - v ELSE v)

\* parseFloat(cs): as parseInt, with an optional fraction; NaN when there is
\* neither an integer digit nor a fraction digit
ParseFloat(cs) ==
  LET a == SkipWhile(cs, 1, {" "})
      neg == a <= Len(cs) /\ cs[a] = "-"
      b == IF a <= Len(cs) /\ cs[a] \in {"+", "-"} THEN a + 1 ELSE a
      c == SkipWhile(cs, b, Digits)
      hasDot == c <= Len(cs) /\ cs[c] = "."
      e == IF hasDot THEN SkipWhile(cs, c + 1, Digits) ELSE c
      whole == DigitsValue(cs, b, c, 0)
      tenth == IF hasDot /\ e > c + 1 THEN DigitVal(cs[c + 1]) ELSE 0
      v == 10 * whole + tenth
  IN  IF c = b /\ ~(hasDot /\ e > c + 1) THEN NaN
      ELSE Num(IF neg THEN 0 - v ELSE v)

(***************************************************************************)
(* Configuration Manager: the configuration objects                        *)
(*                                                                         *)
(* defaultConfig holds the CONTENT of the section objects created by the   *)
(* defaultConfig literal. currentConfig is the top-level object: for each  *)
(* section key it holds either Shared, a reference to the section object   *)
(* of defaultConfig with the same key (what the spread {...defaultConfig}   *)
(* copies), or a value of its own. A write through a Shared slot changes   *)
(* defaultConfig's section object.                                         *)
(***************************************************************************)
Sections == {"ai", "batch", "security", "debug", "pullRequest", "extra"}

DefaultSections == {"ai", "batch", "security", "debug", "pullRequest"}

Keys == {"model", "temperature", "maxTokens", "maxConcurrent",
         "maxIssuesPerBatch", "tokenEnvName", "tokens", "credentials",
         "enabled", "verboseLogging", "defaultAsDraft", "addLabels"}

Shared == [ref |-> "default"]

\* the object {}: every key absent
EmptyObj == [k \in Keys |-> Undef]

\* the object with the properties of the record or function f
ObjOf(f) == [k \in Keys |-> IF k \in DOMAIN f THEN f[k] ELSE Undef]

\* the section objects of the defaultConfig literal (the sections and
\* settings that no operation of the model reads or writes are left out)
OriginalDefaults ==
  [sec \in DefaultSections |->
     CASE sec = "ai" ->
            ObjOf([model |-> Str("claude-3-opus-20240229"),
                   temperature |-> Num(2),
                   maxTokens |-> Whole(4000)])
       [] sec = "batch" ->
            ObjOf([maxConcurrent |-> Whole(3),
                   maxIssuesPerBatch |-> Whole(10)])
       [] sec = "security" ->
            ObjOf([tokenEnvName |-> Str("GITHUB_TOKEN")])
       [] sec = "debug" ->
            ObjOf([enabled |-> Bool(FALSE), verboseLogging |-> Bool(FALSE)])
       [] sec = "pullRequest" ->
            ObjOf([defaultAsDraft |-> Bool(TRUE),
                   addLabels |-> List(<<"ai-assisted">>)])]

\* { ...defaultConfig }: a new top-level object whose section keys refer to
\* defaultConfig's own section objects
SpreadDefaults == [sec \in Sections |-> IF sec \in DefaultSections THEN Shared ELSE Undef]

\* the value read by currentConfig[sec]: the object a Shared slot refers to
SlotValue(st, sec) ==
  IF st.c[sec] = Shared THEN Obj(st.d[sec]) ELSE st.c[sec]

\* obj[key] for a non-nullish obj (a property of a primitive is undefined)
PropOf(v, key) == IF IsObj(v) THEN v.o[key] ELSE Undef

\* currentConfig[sec][key] = val in sloppy mode: a write to a property of a
\* primitive is dropped. The caller excludes a nullish currentConfig[sec].
SetProp(st, sec, key, val) ==
  IF st.c[sec] = Shared THEN [st EXCEPT !.d[sec][key] = val]
  ELSE IF IsObj(st.c[sec]) THEN [st EXCEPT !.c[sec] = Obj([st.c[sec].o EXCEPT ![key] = val])]
  ELSE st

\* what getConfig() lets a caller read: every section with its content
getConfig(st) == [sec \in Sections |-> SlotValue(st, sec)]

(***************************************************************************)
(* Configuration Manager: the operations, as functions of the pair         *)
(* st = [d |-> defaultConfig, c |-> currentConfig]                         *)
(***************************************************************************)

\* deepMerge(target[sec], src) for an object-valued src: every key of src
\* holds a scalar or an array in the documents of the model, so it is
\* assigned (for .. in visits each key once, in any order)
RECURSIVE deepMergeInner(_, _, _, _)
deepMergeInner(st, sec, src, todo) ==
  IF todo = {} THEN st
  ELSE LET key == CHOOSE k \in todo : TRUE
       IN  deepMergeInner(SetProp(st, sec, key, src[key]), sec, src, todo \ {key})

\* deepMergeKey that assigns an object value as it assigns any other value
deepMergeKeyAssign(st, sec, v) ==
  [st EXCEPT !.c[sec] = IF IsObj(v) THEN Obj(ObjOf(v.o)) ELSE v]

\* one iteration of deepMerge(currentConfig, source) for the key sec
deepMergeKey(st, sec, v) ==
  IF Truthy(v) /\ IsObj(v)
  THEN LET st1 == IF ~Truthy(st.c[sec]) THEN [st EXCEPT !.c[sec] = Obj(EmptyObj)] ELSE st
       IN  deepMergeInner(st1, sec, v.o, DOMAIN v.o)
  ELSE [st EXCEPT !.c[sec] = v]

RECURSIVE deepMerge(_, _, _)
deepMerge(st, source, todo) ==
  IF todo = {} THEN st
  ELSE LET sec == CHOOSE k \in todo : TRUE
       IN  deepMerge(deepMergeKey(st, sec, source[sec]), source, todo \ {sec})

\* mergeConfig(newConfig): a document is null or a function from some
\* section keys to values
mergeConfig(st, newConfig) ==
  IF newConfig = Null THEN st ELSE deepMerge(st, newConfig, DOMAIN newConfig)

\* the assignments loadFromEnvironment makes for the environment env, in the
\* order of the code
EnvAssignments(env) ==
  LET temp == ParseFloat(env.AI_TEMPERATURE)
      tokens == ParseInt(env.AI_MAX_TOKENS)
      max == ParseInt(env.MAX_CONCURRENT_ISSUES)
  IN  (IF env.AI_MODEL # "" THEN << <<"ai", "model", Str(env.AI_MODEL)>> >> ELSE << >>)
      \o (IF env.AI_TEMPERATURE # << >> /\ temp # NaN
          THEN << <<"ai", "temperature", temp>> >> ELSE << >>)
      \o (IF env.AI_MAX_TOKENS # << >> /\ tokens # NaN
          THEN << <<"ai", "maxTokens", tokens>> >> ELSE << >>)
      \o (IF env.DEBUG_MODE = "true"
          THEN << <<"debug", "enabled", Bool(TRUE)>>,
                  <<"debug", "verboseLogging", Bool(TRUE)>> >> ELSE << >>)
      \o (IF env.PR_AS_DRAFT = "false"
          THEN << <<"pullRequest", "defaultAsDraft", Bool(FALSE)>> >> ELSE << >>)
      \o (IF env.MAX_CONCURRENT_ISSUES # << >> /\ max # NaN
          THEN << <<"batch", "maxConcurrent", max>> >> ELSE << >>)

\* runs the assignments in order; a write through a nullish section throws a
\* TypeError, which ends loadFromEnvironment
RECURSIVE ApplyAssignments(_, _)
ApplyAssignments(st, as) ==
  IF as = << >> THEN [st |-> st, threw |-> FALSE]
  ELSE IF IsNullish(st.c[as[1][1]]) THEN [st |-> st, threw |-> TRUE]
  ELSE ApplyAssignments(SetProp(st, as[1][1], as[1][2], as[1][3]), Tail(as))

loadFromEnvironment(st, env) == ApplyAssignments(st, EnvAssignments(env))

\* validateConfig(config): config.ai.temperature, config.batch.maxConcurrent
\* and config.security.tokenEnvName are read without a check of the section,
\* so a nullish section throws a TypeError
validateConfig(config) ==
  LET ai == config["ai"]
      batch == config["batch"]
      security == config["security"]
      threw == IsNullish(ai) \/ IsNullish(batch) \/ IsNullish(security)
      errors ==
        (IF ~Truthy(ai) \/ ~Truthy(PropOf(ai, "model"))
         THEN <<"AI model not defined">> ELSE << >>)
        \o (IF JsLess(PropOf(ai, "temperature"), Whole(0))
               \/ JsGreater(PropOf(ai, "temperature"), Whole(1))
            THEN <<"AI temperature must be between 0 and 1">> ELSE << >>)
        \o (IF JsLess(PropOf(ai, "maxTokens"), Whole(100))
               \/ JsGreater(PropOf(ai, "maxTokens"), Whole(10000))
            THEN <<"AI maxTokens must be between 100 and 10000">> ELSE << >>)
        \o (IF JsLess(PropOf(batch, "maxConcurrent"), Whole(1))
            THEN <<"Batch maxConcurrent must be at least 1">> ELSE << >>)
        \o (IF JsLess(PropOf(batch, "maxIssuesPerBatch"), Whole(1))
            THEN <<"Batch maxIssuesPerBatch must be at least 1">> ELSE << >>)
        \o (IF ~Truthy(PropOf(security, "tokenEnvName"))
            THEN <<"Security tokenEnvName not defined">> ELSE << >>)
  IN  [threw |-> threw, valid |-> ~threw /\ errors = << >>, errors |-> errors]

\* initialize, first part: currentConfig = { ...defaultConfig }; with a
\* configPath the call is then suspended in loadConfigFromFile
cfgInitBegin(st) == [st EXCEPT !.c = SpreadDefaults]

\* initialize, second part, run without suspension: the merge of the loaded
\* document (hasFile), the environment overrides and the validation.
\* load is "error" when loadConfigFromFile threw, otherwise the document.
\* ok is the value initialize returns; why tells what made it fail: the
\* load, a TypeError thrown on the way, or the validation.
cfgInitFinish(st, hasFile, load, env) ==
  IF hasFile /\ load = Str("error") THEN [st |-> st, ok |-> FALSE, why |-> "load"]
  ELSE LET Validated(envd, validation) ==
             IF envd.threw \/ validation.threw
             THEN [st |-> envd.st, ok |-> FALSE, why |-> "threw"]
             ELSE IF ~validation.valid
             THEN [st |-> envd.st, ok |-> FALSE, why |-> "invalid"]
             ELSE [st |-> envd.st, ok |-> TRUE, why |-> "ok"]
           Overridden(envd) == Validated(envd, validateConfig(getConfig(envd.st)))
       IN  Overridden(loadFromEnvironment(IF hasFile THEN mergeConfig(st, load) ELSE st,
                                          env))

\* updateConfig(key, value) for a key of one or two parts, in sloppy mode;
\* it returns true on every such key
updateConfig(st, parts, value) ==
  IF Len(parts) = 1 THEN [st EXCEPT !.c[parts[1]] = value]
  ELSE LET st1 == IF ~Truthy(st.c[parts[1]])
                  THEN [st EXCEPT !.c[parts[1]] = Obj(EmptyObj)] ELSE st
       IN  SetProp(st1, parts[1], parts[2], value)

\* saveConfigToFile up to the write: configToSave = { ...currentConfig }
\* shares the section objects, and the two deletes act on the shared
\* security object
saveStrip(st) ==
  IF Truthy(st.c["security"])
  THEN SetProp(SetProp(st, "security", "tokens", Undef), "security", "credentials", Undef)
  ELSE st

\* resetToDefaults()
resetToDefaults(st) == [st EXCEPT !.c = SpreadDefaults]

(***************************************************************************)
(* Trigger Detector                                                        *)
(*                                                                         *)
(* An input text is a sequence of tokens, each standing for a piece of     *)
(* text the three regular expressions tell apart:                          *)
(*   url    "https://github.com/<owner>/<repo>/issues/<digits>"            *)
(*   from   "resolve issues from" and the white space after it             *)
(*   in     "resolve issues in" and the white space after it               *)
(*   slug   "<owner>/<repo>"                                               *)
(*   word   a word without a slash, and the blanks after it                *)
(*   nl     a line break                                                   *)
(***************************************************************************)
UrlTok(o, r, ds) == [tok |-> "url", owner |-> o, repo |-> r, digits |-> ds]
FromTok == [tok |-> "from"]
InTok == [tok |-> "in"]
SlugTok(o, r) == [tok |-> "slug", owner |-> o, repo |-> r]
WordTok(w) == [tok |-> "word", w |-> w]
NlTok == [tok |-> "nl"]

\* the characters of the text a match of urlRegex covers (match[0])
UrlText(u) ==
  <<"https://github.com/", u.owner, "/", u.repo, "/issues/">> \o u.digits

\* the pieces a token that holds no slash contributes to a capture
TokText(x) ==
  CASE x.tok = "word" -> <<x.w>>
    [] x.tok = "from" -> <<"resolve issues from ">>
    [] x.tok = "in" -> <<"resolve issues in ">>
    [] x.tok = "nl" -> <<"\n">>

\* obj.field of JavaScript: undefined when the object has no such property
Field(obj, f) == IF f \in DOMAIN obj THEN obj[f] ELSE Undef

\* [...text.matchAll(urlRegex)]: the url tokens of the text, in order
UrlMatches(text) == SelectSeq(text, LAMBDA x : x.tok = "url")

\* extractIssueList(text)
extractIssueList(text) ==
  LET matches == UrlMatches(text)
  IN  [i \in 1..Len(matches) |->
         [issueUrl |-> Text(UrlText(matches[i])),
          owner |-> Text(<<matches[i].owner>>),
          repo |-> Text(<<matches[i].repo>>),
          issueNumber |-> ParseInt(matches[i].digits)]]

\* positions of the tokens of the given kind in text
Positions(text, kind) == {i \in 1..Len(text) : text[i].tok = kind}

Min(S) == CHOOSE x \in S : \A y \in S : x <= y

\* batchMatch[1]: what (.*) captures after the first "resolve issues from":
\* the white space before it, line breaks included, goes to \s+, and the
\* capture ends at the next line break
BatchCapture(text) ==
  LET p == Min(Positions(text, "from"))
      a == SkipWhile(text, p + 1, {NlTok})
      e == SkipWhile(text, a, {x \in {text[i] : i \in 1..Len(text)} : x # NlTok})
  IN  SubSeq(text, a, e - 1)

\* the captures of repoRegex at the first "resolve issues in": ([^\/]+) is
\* everything up to the first slash, which is the slash of the next slug
RECURSIVE ConcatText(_, _, _)
ConcatText(text, i, j) ==
  IF i > j THEN << >> ELSE TokText(text[i]) \o ConcatText(text, i + 1, j)

RepoMatch(text) ==
  LET ins == Positions(text, "in")
      p == Min(ins)
      slugs == IF ins = {} THEN {}
               ELSE {i \in Positions(text, "slug") : i > p}
      q == Min(slugs)
  IN  IF slugs = {} THEN Null
      ELSE [owner |-> Text(ConcatText(text, p + 1, q - 1) \o <<text[q].owner>>),
            repo |-> Text(<<text[q].repo>>)]

\* detectTrigger that builds the request from the last match of urlRegex
detectTriggerLastMatch(input) ==
  LET text == IF "raw" \in DOMAIN input THEN input.raw
              ELSE IF "text" \in DOMAIN input THEN input.text
              ELSE << >>
      matches == UrlMatches(text)
  IN  IF input = Null \/ text = << >> \/ Len(matches) = 0 THEN Null
      ELSE [issueUrl |-> Text(UrlText(matches[Len(matches)])),
            owner |-> Text(<<matches[Len(matches)].owner>>),
            repo |-> Text(<<matches[Len(matches)].repo>>),
            issueNumber |-> ParseInt(matches[Len(matches)].digits),
            isBatch |-> Bool(FALSE)]

\* detectTrigger that returns the Batch request whatever the length of the
\* extracted list
detectTriggerAnyList(input) ==
  LET text == IF "raw" \in DOMAIN input THEN input.raw
              ELSE IF "text" \in DOMAIN input THEN input.text
              ELSE << >>
      matches == UrlMatches(text)
  IN  IF input = Null \/ text = << >> THEN Null
      ELSE IF Len(matches) > 0
      THEN [issueUrl |-> Text(UrlText(matches[1])),
            owner |-> Text(<<matches[1].owner>>),
            repo |-> Text(<<matches[1].repo>>),
            issueNumber |-> ParseInt(matches[1].digits),
            isBatch |-> Bool(FALSE)]
      ELSE IF Positions(text, "from") # {}
      THEN [isBatch |-> Bool(TRUE),
            issueList |-> List(extractIssueList(BatchCapture(text)))]
      ELSE IF RepoMatch(text) # Null
      THEN [isRepoWide |-> Bool(TRUE), owner |-> RepoMatch(text).owner,
            repo |-> RepoMatch(text).repo, isBatch |-> Bool(FALSE)]
      ELSE Null

\* detectTrigger(input). An input is a string [raw |-> text], an object
\* [text |-> text] or [other |-> 0] without a text property, or null (the
\* read of input.text then throws, and the catch returns null)
detectTrigger(input) ==
  LET text == IF "raw" \in DOMAIN input THEN input.raw
              ELSE IF "text" \in DOMAIN input THEN input.text
              ELSE << >>
      matches == UrlMatches(text)
      hasBatch == Positions(text, "from") # {}
      issueList == IF hasBatch THEN extractIssueList(BatchCapture(text)) ELSE << >>
      repoMatch == RepoMatch(text)
  IN  IF input = Null THEN Null
      ELSE IF text = << >> THEN Null
      ELSE IF Len(matches) > 0
      THEN [issueUrl |-> Text(UrlText(matches[1])),
            owner |-> Text(<<matches[1].owner>>),
            repo |-> Text(<<matches[1].repo>>),
            issueNumber |-> ParseInt(matches[1].digits),
            isBatch |-> Bool(FALSE)]
      ELSE IF hasBatch /\ Len(issueList) > 0
      THEN [isBatch |-> Bool(TRUE), issueList |-> List(issueList)]
      ELSE IF repoMatch # Null
      THEN [isRepoWide |-> Bool(TRUE), owner |-> repoMatch.owner,
            repo |-> repoMatch.repo, isBatch |-> Bool(FALSE)]
      ELSE Null

\* issue.owner && issue.repo && issue.issueNumber
IssueComplete(issue) ==
  /\ Truthy(Field(issue, "owner"))
  /\ Truthy(Field(issue, "repo"))
  /\ Truthy(Field(issue, "issueNumber"))

\* validateTrigger that looks at the first entry of a batch only
validateTriggerFirstEntry(triggerData) ==
  IF triggerData = Null THEN FALSE
  ELSE IF Truthy(Field(triggerData, "isBatch"))
  THEN LET issueList == Field(triggerData, "issueList")
       IN  /\ IsList(issueList)
           /\ Len(issueList.l) > 0
           /\ IssueComplete(issueList.l[1])
  ELSE IF Truthy(Field(triggerData, "isRepoWide"))
  THEN Truthy(Field(triggerData, "owner")) /\ Truthy(Field(triggerData, "repo"))
  ELSE IssueComplete(triggerData)

\* validateTrigger(triggerData)
validateTrigger(triggerData) ==
  IF triggerData = Null THEN FALSE
  ELSE IF Truthy(Field(triggerData, "isBatch"))
  THEN LET issueList == Field(triggerData, "issueList")
       IN  /\ IsList(issueList)
           /\ Len(issueList.l) > 0
           /\ \A i \in 1..Len(issueList.l) : IssueComplete(issueList.l[i])
  ELSE IF Truthy(Field(triggerData, "isRepoWide"))
  THEN Truthy(Field(triggerData, "owner")) /\ Truthy(Field(triggerData, "repo"))
  ELSE IssueComplete(triggerData)

(***************************************************************************)
(* Inputs of the Configuration Manager                                     *)
(***************************************************************************)
EnvNone ==
  [AI_MODEL |-> "", AI_TEMPERATURE |-> << >>, AI_MAX_TOKENS |-> << >>,
   DEBUG_MODE |-> "", PR_AS_DRAFT |-> "", MAX_CONCURRENT_ISSUES |-> << >>]

\* process.env at the time of a call: unset variables read as empty
Envs ==
  { EnvNone,
    [EnvNone EXCEPT !.AI_TEMPERATURE = <<"1", ".", "5">>],
    [EnvNone EXCEPT !.AI_TEMPERATURE = <<"a", "b", "c">>],
    [EnvNone EXCEPT !.MAX_CONCURRENT_ISSUES = <<"0">>],
    [EnvNone EXCEPT !.MAX_CONCURRENT_ISSUES = <<"1">>],
    [EnvNone EXCEPT !.MAX_CONCURRENT_ISSUES = <<"2">>],
    [AI_MODEL |-> "gpt-x", AI_TEMPERATURE |-> <<"0", ".", "7">>,
     AI_MAX_TOKENS |-> <<"2", "0", "0", "0">>, DEBUG_MODE |-> "true",
     PR_AS_DRAFT |-> "false", MAX_CONCURRENT_ISSUES |-> <<"2">>] }

\* what loadConfigFromFile produces: a thrown error, or the parsed document
\* (null, or an object of sections)
Loads ==
  { Str("error"),
    Null,
    [ai |-> Obj([temperature |-> Num(15)])],
    [ai |-> Obj([temperature |-> Num(5), maxTokens |-> Whole(2000)]),
     pullRequest |-> Obj([addLabels |-> List(<<"bot">>)])],
    [ai |-> Obj([temperature |-> Str("hot")])],
    [ai |-> Null],
    [debug |-> Bool(FALSE)],
    [extra |-> Obj([enabled |-> Bool(TRUE)]),
     batch |-> Obj([maxConcurrent |-> Whole(2)])] }

\* the (key, value) arguments of updateConfig, the key split at the dots
UpdateInputs ==
  { << <<"ai", "temperature">>, Num(15) >>,
    << <<"ai", "maxTokens">>, Whole(50) >>,
    << <<"batch", "maxConcurrent">>, Whole(0) >>,
    << <<"batch", "maxConcurrent">>, Whole(1) >>,
    << <<"security", "tokens">>, Str("secret") >>,
    << <<"security", "tokenEnvName">>, Str("") >>,
    << <<"extra", "enabled">>, Bool(TRUE) >>,
    << <<"security">>, Str("on") >>,
    << <<"debug">>, Num(0) >> }

(***************************************************************************)
(* State                                                                   *)
(***************************************************************************)
VARIABLES
  defaultConfig,   \* content of the section objects of defaultConfig
  currentConfig,   \* the top-level object currentConfig
  cfgLoading,      \* initialize calls suspended in loadConfigFromFile
  cfgRet,          \* the Configuration Manager call that returned last
  cfgOps,          \* Configuration Manager calls made so far
  savedDoc,        \* the document of the last successful saveConfigToFile
  isInitialized,   \* the flag isInitialized of the Entry Coordinator
  calls,           \* the calls of the exported functions, by call number
  pipes,           \* the resolveIssue runs of each call, by position
  cfgInits,        \* calls of configModule.initialize by the coordinator
  ghInits          \* calls of githubModule.initialize by the coordinator

cfgVars == <<defaultConfig, currentConfig, cfgLoading, cfgRet, cfgOps, savedDoc>>

coordVars == <<isInitialized, calls, pipes, cfgInits, ghInits>>

vars == <<defaultConfig, currentConfig, cfgLoading, cfgRet, cfgOps, savedDoc,
          isInitialized, calls, pipes, cfgInits, ghInits>>

Cfg == [d |-> defaultConfig, c |-> currentConfig]

\* cfgRet names the call that returned last (op), its arguments and the
\* environment it ran in (args), what it returned (ok) and why
NoRet == [op |-> "none", args |-> Null, ok |-> TRUE, why |-> "ok"]

CfgInit ==
  /\ defaultConfig = OriginalDefaults
  /\ currentConfig = SpreadDefaults
  /\ cfgLoading = 0
  /\ cfgRet = NoRet
  /\ cfgOps = 0
  /\ savedDoc = Null

(***************************************************************************)
(* Configuration Manager: the calls                                        *)
(***************************************************************************)

\* initialize() without configPath: runs to its return without suspension
InitializeNoFile(env) ==
  /\ \E r \in {cfgInitFinish(cfgInitBegin(Cfg), FALSE, Null, env)} :
         /\ defaultConfig' = r.st.d
         /\ currentConfig' = r.st.c
         /\ cfgRet' = [op |-> "initialize",
                        args |-> [hasFile |-> FALSE, load |-> Null, env |-> env],
                        ok |-> r.ok, why |-> r.why]
  /\ UNCHANGED <<cfgLoading, savedDoc, coordVars>>

CfgInitializeNoFile(env) ==
  /\ cfgOps < MaxCfgOps
  /\ cfgOps' = cfgOps + 1
  /\ InitializeNoFile(env)

\* initialize(configPath): resets currentConfig and suspends in the file load
CfgInitializeBegin ==
  /\ cfgOps < MaxCfgOps
  /\ defaultConfig' = cfgInitBegin(Cfg).d
  /\ currentConfig' = cfgInitBegin(Cfg).c
  /\ cfgLoading' = cfgLoading + 1
  /\ cfgRet' = NoRet
  /\ cfgOps' = cfgOps + 1
  /\ UNCHANGED <<savedDoc, coordVars>>

\* a suspended initialize(configPath) resumes with the outcome of the load
CfgInitializeResume(load, env) ==
  /\ cfgLoading > 0
  /\ \E r \in {cfgInitFinish(Cfg, TRUE, load, env)} :
         /\ defaultConfig' = r.st.d
         /\ currentConfig' = r.st.c
         /\ cfgRet' = [op |-> "initialize",
                        args |-> [hasFile |-> TRUE, load |-> load, env |-> env],
                        ok |-> r.ok, why |-> r.why]
  /\ cfgLoading' = cfgLoading - 1
  /\ UNCHANGED <<cfgOps, savedDoc, coordVars>>

UpdateConfig(parts, value) ==
  /\ cfgOps < MaxCfgOps
  /\ defaultConfig' = updateConfig(Cfg, parts, value).d
  /\ currentConfig' = updateConfig(Cfg, parts, value).c
  /\ cfgRet' = [op |-> "updateConfig", args |-> [parts |-> parts, value |-> value],
                 ok |-> TRUE, why |-> "ok"]
  /\ cfgOps' = cfgOps + 1
  /\ UNCHANGED <<cfgLoading, savedDoc, coordVars>>

\* saveConfigToFile(filePath): written tells whether fs.writeFile succeeded
SaveConfigToFile(written) ==
  /\ cfgOps < MaxCfgOps
  /\ defaultConfig' = saveStrip(Cfg).d
  /\ currentConfig' = saveStrip(Cfg).c
  /\ savedDoc' = IF written THEN getConfig(saveStrip(Cfg)) ELSE savedDoc
  /\ cfgRet' = [op |-> "saveConfigToFile", args |-> Null, ok |-> written,
                 why |-> IF written THEN "ok" ELSE "write"]
  /\ cfgOps' = cfgOps + 1
  /\ UNCHANGED <<cfgLoading, coordVars>>

ResetToDefaults ==
  /\ cfgOps < MaxCfgOps
  /\ defaultConfig' = resetToDefaults(Cfg).d
  /\ currentConfig' = resetToDefaults(Cfg).c
  /\ cfgRet' = [op |-> "resetToDefaults", args |-> Null, ok |-> TRUE, why |-> "ok"]
  /\ cfgOps' = cfgOps + 1
  /\ UNCHANGED <<cfgLoading, savedDoc, coordVars>>

(***************************************************************************)
(* Orchestration Engine: resolveIssue                                      *)
(*                                                                         *)
(* A run of resolveIssue is suspended at the await of one collaborator at  *)
(* a time; createVisualization is called without an await, in the step     *)
(* that resumes from provideFeedback.                                      *)
(***************************************************************************)
Collaborators ==
  <<"fetchIssueData", "setupTask", "generateAndValidateCode",
    "createPullRequest", "provideFeedback", "createVisualization">>

\* the Error a failing collaborator throws
ErrorOf(name) == [message |-> Text(<<name, " failed">>)]

NoPipe ==
  [st |-> "free", arg |-> Null, stage |-> 0, invoked |-> << >>,
   thrown |-> << >>, result |-> Null]

\* FailureResult with the success flag of the success path
FailureResultSuccess(triggerData, error) ==
  [success |-> Bool(TRUE),
   issueUrl |-> Field(triggerData, "issueUrl"),
   error |-> error.message]

\* FailureResult with a fixed text in place of the message of the error
FailureResultFixedText(triggerData, error) ==
  [success |-> Bool(FALSE),
   issueUrl |-> Field(triggerData, "issueUrl"),
   error |-> Text(<<"resolution failed">>)]

\* the object resolveIssue returns from its catch block
FailureResult(triggerData, error) ==
  [success |-> Bool(FALSE),
   issueUrl |-> Field(triggerData, "issueUrl"),
   error |-> error.message]

\* SuccessResult with the url taken from what fetchIssueData returned
SuccessResultFetchedUrl(triggerData) ==
  [success |-> Bool(TRUE),
   issueUrl |-> Str("issueData.url"),
   issueNumber |-> Str("issueData.number"),
   pullRequestUrl |-> Str("prResult.pullRequestUrl"),
   pullRequestNumber |-> Str("prResult.pullRequestNumber"),
   branch |-> Str("prResult.branch"),
   changedFiles |-> Str("codeChanges.codeChanges.length"),
   visualization |-> Str("visualization")]

\* the object resolveIssue returns after the last stage; the values the
\* collaborators produced are opaque
SuccessResult(triggerData) ==
  [success |-> Bool(TRUE),
   issueUrl |-> Field(triggerData, "issueUrl"),
   issueNumber |-> Str("issueData.number"),
   pullRequestUrl |-> Str("prResult.pullRequestUrl"),
   pullRequestNumber |-> Str("prResult.pullRequestNumber"),
   branch |-> Str("prResult.branch"),
   changedFiles |-> Str("codeChanges.codeChanges.length"),
   visualization |-> Str("visualization")]

\* resolveIssue(triggerData) up to its first await
resolveIssueBegin(triggerData) ==
  [st |-> "run", arg |-> triggerData, stage |-> 1,
   invoked |-> <<Collaborators[1]>>, thrown |-> << >>, result |-> Null]

\* resolveIssueResume with each stage in a try block of its own: a failure
\* of a stage before provideFeedback is noted and the next stage runs
resolveIssueResumeNoAbort(p, ok, vizOk) ==
  LET name == Collaborators[p.stage]
      noted == IF ok THEN p.thrown ELSE Append(p.thrown, ErrorOf(name))
  IN  IF p.stage < 5
      THEN [p EXCEPT !.stage = @ + 1,
                     !.thrown = noted,
                     !.invoked = Append(@, Collaborators[p.stage + 1])]
      ELSE [p EXCEPT !.st = "done",
                     !.stage = 6,
                     !.thrown = noted,
                     !.invoked = Append(@, Collaborators[6]),
                     !.result = IF noted = << >> /\ vizOk THEN SuccessResult(p.arg)
                                ELSE FailureResult(p.arg, ErrorOf(name))]

\* the awaited collaborator settles (ok: it resolved) and resolveIssue runs
\* to its next await or to its return; vizOk tells whether
\* createVisualization returns
resolveIssueResume(p, ok, vizOk) ==
  LET name == Collaborators[p.stage]
  IN  IF ~ok
      THEN [p EXCEPT !.st = "done",
                     !.thrown = Append(@, ErrorOf(name)),
                     !.result = FailureResult(p.arg, ErrorOf(name))]
      ELSE IF p.stage < 5
      THEN [p EXCEPT !.stage = @ + 1,
                     !.invoked = Append(@, Collaborators[p.stage + 1])]
      ELSE IF vizOk
      THEN [p EXCEPT !.st = "done",
                     !.stage = 6,
                     !.invoked = Append(@, Collaborators[6]),
                     !.result = SuccessResult(p.arg)]
      ELSE [p EXCEPT !.st = "done",
                     !.stage = 6,
                     !.invoked = Append(@, Collaborators[6]),
                     !.thrown = Append(@, ErrorOf(Collaborators[6])),
                     !.result = FailureResult(p.arg, ErrorOf(Collaborators[6]))]

(***************************************************************************)
(* Entry Coordinator and Batch Scheduler                                   *)
(***************************************************************************)
CallIds == 1..MaxCalls

PipeIds == 1..MaxPipes

IdleCall ==
  [kind |-> "idle", pc |-> "idle", input |-> Null, n |-> 0, list |-> << >>,
   k |-> Undef, next |-> 1, started |-> << >>, ret |-> Null, cfgOk |-> TRUE]

CoordInit ==
  /\ isInitialized = FALSE
  /\ calls = [c \in CallIds |-> IdleCall]
  /\ pipes = [c \in CallIds |-> [i \in PipeIds |-> NoPipe]]
  /\ cfgInits = 0
  /\ ghInits = 0

\* inputs of handleMcpInvocation
DigitChars == <<"1", "2", "3", "4", "5", "6", "7", "8", "9">>

UrlAt(i) == UrlTok("a", "b", <<DigitChars[i]>>)

McpInputs ==
  { [raw |-> <<WordTok("fix"), UrlTok("foo", "bar", <<"4", "2">>)>>],
    [raw |-> <<FromTok, UrlAt(1), WordTok("and"), UrlAt(2)>>],
    [raw |-> <<InTok, SlugTok("foo", "bar")>>],
    [raw |-> <<FromTok, WordTok("nothing")>>],
    [raw |-> <<UrlTok("foo", "bar", <<"0">>)>>],
    [text |-> <<UrlAt(1)>>],
    [raw |-> << >>],
    Null }

\* issue lists handed to resolveBatch: the issues 1..n, and a list that
\* names one issue twice
IssueAt(i) == extractIssueList(<<UrlAt(i)>>)[1]

IssueLists ==
  {[i \in 1..n |-> IssueAt(i)] : n \in 1..MaxPipes}
  \cup {<<IssueAt(1), IssueAt(1)>>}

\* environments and file loads of the runs of the coordinator
CoordEnvs ==
  {e \in Envs : e.AI_MODEL = "" /\ e.AI_TEMPERATURE = << >>
                 /\ e.MAX_CONCURRENT_ISSUES # <<"1">>}

CoordLoads == {Str("error"), [ai |-> Obj([temperature |-> Num(15)])]}

\* the pipelines the calls made so far may start
RECURSIVE ReservedUpTo(_)
ReservedUpTo(c) == IF c = 0 THEN 0 ELSE calls[c].n + ReservedUpTo(c - 1)

Reserved == ReservedUpTo(MaxCalls)

\* the next call of the host is the lowest call number not used yet
IsNextCall(c) ==
  /\ calls[c].kind = "idle"
  /\ \A d \in CallIds : d < c => calls[d].kind # "idle"

\* the pipelines handleMcpInvocation(input) starts once it dispatches
PipesNeeded(input) ==
  LET Needed(t) ==
        IF t = Null \/ ~validateTrigger(t) THEN 0
        ELSE IF Truthy(Field(t, "isBatch")) THEN Len(t.issueList.l)
        ELSE 1
  IN  Needed(detectTrigger(input))

\* processBatch(issueList, resolveIssue) up to its first suspension: the
\* queue is the whole list and the cap is batch.maxConcurrent
processBatchBegin(call, issueList, st) ==
  [call EXCEPT !.pc = "batch", !.list = issueList, !.next = 1,
               !.k = PropOf(SlotValue(st, "batch"), "maxConcurrent")]

\* Active that keeps a finished pipeline in its slot
ActiveNeverFreed(c) == {i \in PipeIds : pipes[c][i].st \in {"run", "done"}}

\* the pipelines of call c that have started and not finished
Active(c) == {i \in PipeIds : pipes[c][i].st = "run"}

\* Dispatch that returns the null of detectTrigger when there is no trigger
DispatchReturnsNull(call, row, input, st) ==
  LET Route(triggerData) ==
        IF triggerData = Null \/ ~validateTrigger(triggerData)
        THEN [call |-> [call EXCEPT !.pc = "done", !.ret = triggerData], row |-> row]
        ELSE IF Truthy(Field(triggerData, "isBatch"))
        THEN [call |-> processBatchBegin(call, triggerData.issueList.l, st),
              row |-> row]
        ELSE [call |-> [call EXCEPT !.pc = "pipe"],
              row |-> [row EXCEPT ![1] = resolveIssueBegin(triggerData)]]
  IN  Route(detectTrigger(input))

\* handleMcpInvocation from detectTrigger on (lines 135-165), up to the
\* await of resolveBatch or resolveIssue
Dispatch(call, row, input, st) ==
  LET Route(triggerData) ==
        IF triggerData = Null
        THEN [call |-> [call EXCEPT !.pc = "done",
                          !.ret = [success |-> Bool(FALSE),
                                   message |-> Str("No valid GitHub issue detected in the input")]],
              row |-> row]
        ELSE IF ~validateTrigger(triggerData)
        THEN [call |-> [call EXCEPT !.pc = "done",
                          !.ret = [success |-> Bool(FALSE),
                                   message |-> Str("Invalid trigger data, missing required information")]],
              row |-> row]
        ELSE IF /\ Truthy(Field(triggerData, "isBatch"))
                /\ Truthy(Field(triggerData, "issueList"))
                /\ Len(triggerData.issueList.l) > 0
        THEN [call |-> processBatchBegin(call, triggerData.issueList.l, st),
              row |-> row]
        ELSE [call |-> [call EXCEPT !.pc = "pipe"],
              row |-> [row EXCEPT ![1] = resolveIssueBegin(triggerData)]]
  IN  Route(detectTrigger(input))

\* initialize(configPath) of the coordinator from its start to its first
\* suspension, for the call record call; st is the configuration after it
InitializeBegin(call, hasPath, env) ==
  LET Returned(fin) ==
        [call |-> [call EXCEPT !.pc = "cfgAwait", !.cfgOk = fin.ok], st |-> fin.st]
  IN  IF hasPath
      THEN [call |-> [call EXCEPT !.pc = "cfgLoad"], st |-> cfgInitBegin(Cfg)]
      ELSE Returned(cfgInitFinish(cfgInitBegin(Cfg), FALSE, Null, env))

\* the host calls initialize(configPath)
CallInitialize(c, hasPath, env) ==
  /\ IsNextCall(c)
  /\ IF isInitialized
     THEN /\ calls' = [calls EXCEPT ![c] = [IdleCall EXCEPT !.kind = "initialize",
                                              !.pc = "done", !.ret = Bool(TRUE)]]
          /\ UNCHANGED <<defaultConfig, currentConfig, cfgInits>>
     ELSE \E r \in {InitializeBegin([IdleCall EXCEPT !.kind = "initialize"], hasPath, env)} :
              /\ calls' = [calls EXCEPT ![c] = r.call]
              /\ defaultConfig' = r.st.d
              /\ currentConfig' = r.st.c
              /\ cfgInits' = cfgInits + 1
  /\ UNCHANGED <<cfgLoading, cfgRet, cfgOps, savedDoc, isInitialized, pipes, ghInits>>

\* configModule.initialize(configPath) resumes from the file load and
\* returns
ConfigLoaded(c, load, env) ==
  /\ calls[c].pc = "cfgLoad"
  /\ \E r \in {cfgInitFinish(Cfg, TRUE, load, env)} :
         /\ defaultConfig' = r.st.d
         /\ currentConfig' = r.st.c
         /\ calls' = [calls EXCEPT ![c].pc = "cfgAwait", ![c].cfgOk = r.ok]
  /\ UNCHANGED <<cfgLoading, cfgRet, cfgOps, savedDoc, isInitialized, pipes,
                 cfgInits, ghInits>>

\* initialize resumes from the await of configModule.initialize, whose
\* result it drops, and calls githubModule.initialize
ConfigAwaited(c) ==
  /\ calls[c].pc = "cfgAwait"
  /\ calls' = [calls EXCEPT ![c].pc = "ghInit"]
  /\ ghInits' = ghInits + 1
  /\ UNCHANGED <<cfgVars, isInitialized, pipes, cfgInits>>

\* githubModule.initialize settles: initialize returns, and a
\* handleMcpInvocation that awaited it goes on
GithubInitSettled(c, ok) ==
  /\ calls[c].pc = "ghInit"
  /\ isInitialized' = (isInitialized \/ ok)
  /\ IF calls[c].kind = "initialize"
     THEN /\ calls' = [calls EXCEPT ![c].pc = "done", ![c].ret = Bool(ok)]
          /\ UNCHANGED pipes
     ELSE IF ~ok
     THEN /\ calls' = [calls EXCEPT ![c].pc = "done",
                         ![c].ret = [success |-> Bool(FALSE),
                                     message |-> Str("Failed to initialize OpenHands Resolver MCP")]]
          /\ UNCHANGED pipes
     ELSE \E r \in {Dispatch(calls[c], pipes[c], calls[c].input, Cfg)} :
              /\ calls' = [calls EXCEPT ![c] = r.call]
              /\ pipes' = [pipes EXCEPT ![c] = r.row]
  /\ UNCHANGED <<cfgVars, cfgInits, ghInits>>

\* the host calls handleMcpInvocation(input)
CallHandleMcpInvocation(c, input, env) ==
  /\ IsNextCall(c)
  /\ \E n \in {PipesNeeded(input)} :
       /\ Reserved + n <= MaxPipes
       /\ IF isInitialized
          THEN \E r \in {Dispatch([IdleCall EXCEPT !.kind = "handleMcpInvocation",
                                                    !.input = input, !.n = n],
                                   pipes[c], input, Cfg)} :
                  /\ calls' = [calls EXCEPT ![c] = r.call]
                  /\ pipes' = [pipes EXCEPT ![c] = r.row]
                  /\ UNCHANGED <<defaultConfig, currentConfig, cfgInits>>
          ELSE \E r \in {InitializeBegin([IdleCall EXCEPT !.kind = "handleMcpInvocation",
                                                           !.input = input, !.n = n],
                                          FALSE, env)} :
                  /\ calls' = [calls EXCEPT ![c] = r.call]
                  /\ defaultConfig' = r.st.d
                  /\ currentConfig' = r.st.c
                  /\ cfgInits' = cfgInits + 1
                  /\ UNCHANGED pipes
  /\ UNCHANGED <<cfgLoading, cfgRet, cfgOps, savedDoc, isInitialized, ghInits>>

\* the host calls resolveBatch(issueList)
CallResolveBatch(c, issueList) ==
  /\ IsNextCall(c)
  /\ Reserved + Len(issueList) <= MaxPipes
  /\ calls' = [calls EXCEPT ![c] =
                 processBatchBegin([IdleCall EXCEPT !.kind = "resolveBatch",
                                                    !.n = Len(issueList)],
                                   issueList, Cfg)]
  /\ UNCHANGED <<cfgVars, isInitialized, pipes, cfgInits, ghInits>>

\* BatchPull that starts every queued issue whatever the number of active
\* pipelines
BatchPullNoCap(c) ==
  /\ calls[c].pc = "batch"
  /\ calls[c].next <= Len(calls[c].list)
  /\ pipes' = [pipes EXCEPT ![c][calls[c].next] =
                 resolveIssueBegin(calls[c].list[calls[c].next])]
  /\ calls' = [calls EXCEPT ![c].next = @ + 1,
                            ![c].started = Append(@, calls[c].next)]
  /\ UNCHANGED <<cfgVars, isInitialized, cfgInits, ghInits>>

\* the Batch Scheduler takes the next queued issue when a slot is free
BatchPull(c) ==
  /\ calls[c].pc = "batch"
  /\ calls[c].next <= Len(calls[c].list)
  /\ JsLess(Whole(Cardinality(Active(c))), calls[c].k)
  /\ pipes' = [pipes EXCEPT ![c][calls[c].next] =
                 resolveIssueBegin(calls[c].list[calls[c].next])]
  /\ calls' = [calls EXCEPT ![c].next = @ + 1,
                            ![c].started = Append(@, calls[c].next)]
  /\ UNCHANGED <<cfgVars, isInitialized, cfgInits, ghInits>>

\* the collaborator awaited by pipeline i of call c settles
StageSettled(c, i, ok, vizOk) ==
  /\ pipes[c][i].st = "run"
  /\ LET p == resolveIssueResume(pipes[c][i], ok, vizOk)
     IN  /\ pipes' = [pipes EXCEPT ![c][i] = p]
         /\ IF calls[c].pc = "pipe" /\ p.st = "done"
            THEN calls' = [calls EXCEPT ![c].pc = "done", ![c].ret = p.result]
            ELSE UNCHANGED calls
  /\ UNCHANGED <<cfgVars, isInitialized, cfgInits, ghInits>>

\* every issue of the batch has its result: processBatch returns the
\* results in the order of the list
BatchFinish(c) ==
  /\ calls[c].pc = "batch"
  /\ \A i \in 1..Len(calls[c].list) : pipes[c][i].st = "done"
  /\ LET results == [i \in 1..Len(calls[c].list) |-> pipes[c][i].result]
     IN  calls' = [calls EXCEPT ![c].pc = "done",
                     ![c].ret = IF calls[c].kind = "resolveBatch" THEN List(results)
                                ELSE [success |-> Bool(TRUE), isBatch |-> Bool(TRUE),
                                      results |-> List(results)]]
  /\ UNCHANGED <<cfgVars, isInitialized, pipes, cfgInits, ghInits>>

\* the host sets the configuration up between resolution runs, never during
\* one (spec.md section 5: the configuration is read-only for the duration
\* of a run, which is the caller's responsibility)
HostConfigures(env) ==
  /\ \A c \in CallIds : calls[c].pc \in {"idle", "done"}
  /\ InitializeNoFile(env)
  /\ UNCHANGED cfgOps

Init == CfgInit /\ CoordInit

\* the Entry Coordinator: calls of initialize and handleMcpInvocation
Next ==
  \/ \E c \in CallIds, hasPath \in BOOLEAN, env \in CoordEnvs : CallInitialize(c, hasPath, env)
  \/ \E c \in CallIds, load \in CoordLoads, env \in CoordEnvs : ConfigLoaded(c, load, env)
  \/ \E c \in CallIds : ConfigAwaited(c)
  \/ \E c \in CallIds, ok \in BOOLEAN : GithubInitSettled(c, ok)
  \/ \E c \in CallIds, input \in McpInputs, env \in CoordEnvs : CallHandleMcpInvocation(c, input, env)
  \/ \E c \in CallIds, i \in PipeIds, ok \in BOOLEAN, vizOk \in BOOLEAN : StageSettled(c, i, ok, vizOk)

Spec == Init /\ [][Next]_vars

\* the Batch Scheduler: calls of resolveBatch, with batch.maxConcurrent set
\* through calls of the Configuration Manager's initialize
InitBatch == CfgInit /\ CoordInit

NextBatch ==
  \/ \E env \in CoordEnvs : HostConfigures(env)
  \/ \E c \in CallIds, issueList \in IssueLists : CallResolveBatch(c, issueList)
  \/ \E c \in CallIds : BatchPull(c)
  \/ \E c \in CallIds, i \in PipeIds, ok \in BOOLEAN, vizOk \in BOOLEAN : StageSettled(c, i, ok, vizOk)
  \/ \E c \in CallIds : BatchFinish(c)

SpecBatch == InitBatch /\ [][NextBatch]_vars

\* the scheduling of the Batch Scheduler: the event loop runs every
\* continuation that is ready, so the pool's pull and its return are taken
\* when they stay enabled; the collaborator awaited by a pipeline settles,
\* except for the pipeline of the first issue of a batch, whose external
\* call may never return
FairBatch ==
  \A c \in CallIds :
    /\ WF_vars(BatchPull(c))
    /\ WF_vars(BatchFinish(c))
    /\ \A i \in PipeIds \ {1} :
         WF_vars(\E ok \in BOOLEAN, vizOk \in BOOLEAN : StageSettled(c, i, ok, vizOk))

SpecBatchLive == InitBatch /\ [][NextBatch]_vars /\ FairBatch

InitConfig == CfgInit /\ CoordInit

NextConfig ==
  \/ \E env \in Envs : CfgInitializeNoFile(env)
  \/ CfgInitializeBegin
  \/ \E load \in Loads, env \in Envs : CfgInitializeResume(load, env)
  \/ \E u \in UpdateInputs : UpdateConfig(u[1], u[2])
  \/ \E written \in BOOLEAN : SaveConfigToFile(written)
  \/ ResetToDefaults

SpecConfig == InitConfig /\ [][NextConfig]_vars

(***************************************************************************)
(* Trigger Detector: calls of the exported detectTrigger and               *)
(* validateTrigger, one call per behaviour, on call record 1               *)
(***************************************************************************)
TextTokens ==
  {UrlAt(1), UrlAt(2), UrlTok("foo", "bar", <<"4", "2">>), UrlTok("a", "b", <<"0">>),
   FromTok, InTok, SlugTok("foo", "bar"), WordTok("and"), NlTok}

Texts == UNION {[1..n -> TextTokens] : n \in 0..MaxTextLen}

\* a string, an object with a text property, an object without one, null
DetectInputs ==
  {[raw |-> t] : t \in Texts} \cup {[text |-> t] : t \in Texts}
  \cup {[other |-> 0], Null}

\* entries of an issue list: two issues, issue number 0, and entries that
\* lack the repo or the issue number
IssueEntries ==
  {IssueAt(1), IssueAt(2),
   extractIssueList(<<UrlTok("a", "b", <<"0">>)>>)[1],
   [issueUrl |-> IssueAt(1).issueUrl, owner |-> IssueAt(1).owner,
    issueNumber |-> IssueAt(1).issueNumber],
   [issueUrl |-> IssueAt(1).issueUrl, owner |-> IssueAt(1).owner,
    repo |-> IssueAt(1).repo]}

\* the requests handed to validateTrigger: what detectTrigger returns, Batch
\* requests over the entries, and requests that lack a field
ValidateInputs ==
  {detectTrigger(input) : input \in DetectInputs}
  \cup {[isBatch |-> Bool(TRUE), issueList |-> List(l)] :
          l \in UNION {[1..n -> IssueEntries] : n \in 0..2}}
  \cup {[isBatch |-> Bool(TRUE)],
        [isRepoWide |-> Bool(TRUE), owner |-> Text(<<"foo">>), isBatch |-> Bool(FALSE)],
        [isRepoWide |-> Bool(TRUE), repo |-> Text(<<"bar">>), isBatch |-> Bool(FALSE)],
        [issueUrl |-> IssueAt(1).issueUrl, owner |-> IssueAt(1).owner,
         repo |-> IssueAt(1).repo, issueNumber |-> NaN, isBatch |-> Bool(FALSE)]}

\* the host calls detectTrigger(input)
CallDetectTrigger(input) ==
  /\ calls[1].kind = "idle"
  /\ calls' = [calls EXCEPT ![1] = [IdleCall EXCEPT !.kind = "detectTrigger",
                                                    !.pc = "done", !.input = input,
                                                    !.ret = detectTrigger(input)]]
  /\ UNCHANGED <<cfgVars, isInitialized, pipes, cfgInits, ghInits>>

\* the host calls validateTrigger(triggerData); input is the request as it
\* is after the call (validateTrigger only reads it)
CallValidateTrigger(triggerData) ==
  /\ calls[1].kind = "idle"
  /\ calls' = [calls EXCEPT ![1] = [IdleCall EXCEPT !.kind = "validateTrigger",
                                                    !.pc = "done", !.input = triggerData,
                                                    !.ret = Bool(validateTrigger(triggerData))]]
  /\ UNCHANGED <<cfgVars, isInitialized, pipes, cfgInits, ghInits>>

InitTrigger == CfgInit /\ CoordInit

NextTrigger ==
  \/ \E input \in DetectInputs : CallDetectTrigger(input)
  \/ \E triggerData \in ValidateInputs : CallValidateTrigger(triggerData)

SpecTrigger == InitTrigger /\ [][NextTrigger]_vars

(***************************************************************************)
(* Properties                                                              *)
(***************************************************************************)
BatchCalls == {c \in CallIds : calls[c].kind = "resolveBatch"}

McpCalls == {c \in CallIds : calls[c].kind = "handleMcpInvocation"}

\* the resolveIssue runs started so far, as <<call, position>>
Runs == {r \in CallIds \X PipeIds : pipes[r[1]][r[2]].st # "free"}

DoneRuns == {r \in Runs : pipes[r[1]][r[2]].st = "done"}

\* C1: in a batch of N issues run with batch.maxConcurrent = k, 1 <= k < N,
\* the number of pipelines that have started and not yet finished is at
\* most k in every reachable state.
C1_AtMostKActive ==
  \A c \in BatchCalls :
    LET k == calls[c].k
    IN  (IsNum(k) /\ Whole(1).n <= k.n /\ k.n < Whole(Len(calls[c].list)).n)
        => Whole(Cardinality(Active(c))).n <= k.n

\* a batch of 3 issues under a cap of 2: two pipelines run, the third waits
C1_Witness ==
  \E c \in BatchCalls :
    /\ calls[c].k = Whole(2)
    /\ Len(calls[c].list) = 3
    /\ Cardinality(Active(c)) = 2
    /\ calls[c].next = 3

\* C2: when a batch run over N issues has finished, the result sequence has
\* N entries, entry i is the result of the pipeline run on input issue i and
\* carries its issueUrl, and every issue was started exactly once, whatever
\* the order of completion and whichever pipelines failed.
C2_ResultsAlignedWithInput ==
  \A c \in BatchCalls :
    calls[c].pc = "done" =>
      LET N == Len(calls[c].list)
          results == calls[c].ret
      IN  /\ IsList(results)
          /\ Len(results.l) = N
          /\ \A i \in 1..N :
               /\ pipes[c][i].arg = calls[c].list[i]
               /\ results.l[i] = pipes[c][i].result
               /\ results.l[i].issueUrl = calls[c].list[i].issueUrl
          /\ calls[c].started = [i \in 1..N |-> i]
          /\ \A i \in PipeIds : i > N => pipes[c][i].st = "free"

\* a finished batch of 3 under a cap of 2 whose first issue failed and whose
\* second and third succeeded
C2_Witness ==
  \E c \in BatchCalls :
    /\ calls[c].pc = "done"
    /\ calls[c].k = Whole(2)
    /\ Len(calls[c].list) = 3
    /\ calls[c].ret.l[1].success = Bool(FALSE)
    /\ calls[c].ret.l[2].success = Bool(TRUE)
    /\ calls[c].ret.l[3].success = Bool(TRUE)

\* C3: in a batch run a stage failure makes only the result of its own
\* issue unsuccessful: the result of every issue has success=false exactly
\* when a stage of that issue's own pipeline failed (and then carries that
\* error), and the batch returns only after every issue of the list has been
\* started and has run to completion.
C3_FailureIsolated ==
  \A c \in BatchCalls :
    LET N == Len(calls[c].list)
    IN  /\ \A i \in 1..N :
             pipes[c][i].st = "done" =>
               /\ pipes[c][i].result.success = Bool(pipes[c][i].thrown = << >>)
               /\ pipes[c][i].thrown # << >> =>
                    pipes[c][i].result.error = pipes[c][i].thrown[1].message
        /\ calls[c].pc = "done" =>
             \A i \in 1..N :
               /\ pipes[c][i].st = "done"
               /\ calls[c].ret.l[i].success = Bool(pipes[c][i].thrown = << >>)

\* a finished batch of 3 in which code generation failed for the second
\* issue and the two other issues were resolved
C3_Witness ==
  \E c \in BatchCalls :
    /\ calls[c].pc = "done"
    /\ Len(calls[c].list) = 3
    /\ pipes[c][2].thrown = <<ErrorOf("generateAndValidateCode")>>
    /\ calls[c].ret.l[2].success = Bool(FALSE)
    /\ calls[c].ret.l[1].success = Bool(TRUE)
    /\ calls[c].ret.l[3].success = Bool(TRUE)

\* C4: in every run of the single-issue pipeline the collaborators invoked
\* so far are an initial part of fetchIssueData, setupTask,
\* generateAndValidateCode, createPullRequest, provideFeedback,
\* createVisualization, each once; a run that is still going has seen no
\* failure; and a run in which a collaborator failed has ended with that
\* collaborator as the last one invoked.
C4_StagesInOrderNoRetry ==
  \A r \in Runs :
    LET p == pipes[r[1]][r[2]]
    IN  /\ Len(p.invoked) \in 1..6
        /\ p.invoked = SubSeq(Collaborators, 1, Len(p.invoked))
        /\ p.st = "run" => p.thrown = << >> /\ Len(p.invoked) <= 5
        /\ p.thrown # << >> =>
             /\ p.st = "done"
             /\ p.thrown = <<ErrorOf(p.invoked[Len(p.invoked)])>>
        /\ (p.st = "done" /\ p.thrown = << >>) => p.invoked = Collaborators

\* a run that ended when generateAndValidateCode failed, after exactly the
\* first three collaborators had been invoked
C4_Witness ==
  \E r \in DoneRuns :
    /\ pipes[r[1]][r[2]].thrown = <<ErrorOf("generateAndValidateCode")>>
    /\ pipes[r[1]][r[2]].invoked =
         <<"fetchIssueData", "setupTask", "generateAndValidateCode">>

\* C5: a finished single-issue pipeline run has success=true exactly when no
\* stage failed (the Feedback stage being provideFeedback followed by
\* createVisualization); when a stage failed the result is exactly
\* {success: false, issueUrl: the request's issueUrl, error: the message of
\* the first error thrown}, without any pull-request field.
C5_SuccessIffAllStages ==
  \A r \in DoneRuns :
    LET p == pipes[r[1]][r[2]]
    IN  /\ p.result.success = Bool(p.thrown = << >>)
        /\ p.result.issueUrl = Field(p.arg, "issueUrl")
        /\ p.thrown = << >> =>
             /\ p.invoked = Collaborators
             /\ {"pullRequestUrl", "pullRequestNumber", "branch"} \subseteq DOMAIN p.result
        /\ p.thrown # << >> =>
             /\ p.result.error = p.thrown[1].message
             /\ DOMAIN p.result = {"success", "issueUrl", "error"}

\* two finished runs for an issue url: one failed in createPullRequest and
\* one went through all stages
C5_Witness ==
  \E r1 \in DoneRuns, r2 \in DoneRuns :
    /\ pipes[r1[1]][r1[2]].thrown = <<ErrorOf("createPullRequest")>>
    /\ pipes[r1[1]][r1[2]].result.issueUrl # Undef
    /\ pipes[r2[1]][r2[2]].result.success = Bool(TRUE)

\* C6 (as claimed): over all calls of initialize and handleMcpInvocation,
\* overlapping ones included, configModule.initialize and
\* githubModule.initialize are each performed at most once.
C6_InitializedOnce == cfgInits <= 1 /\ ghInits <= 1

\* a request that names one issue: it has an issue url and an issue number
\* and is neither a batch nor repository-wide
IsSingleRequest(t) ==
  /\ t # Null
  /\ ~Truthy(Field(t, "isBatch"))
  /\ ~Truthy(Field(t, "isRepoWide"))
  /\ Truthy(Field(t, "issueUrl"))
  /\ IssueComplete(t)

\* C7 (as claimed): handleMcpInvocation runs the single-issue pipeline only
\* on a validated Single request, never on a RepoWide request.
C7_PipelineOnlyForSingle ==
  \A c \in McpCalls :
    pipes[c][1].st # "free" /\ calls[c].list = << >>
      => IsSingleRequest(pipes[c][1].arg)

\* a response envelope: a boolean success with a message, or a
\* ResolutionResult, or isBatch with the results
IsEnvelope(ret) ==
  /\ "success" \in DOMAIN ret
  /\ IsBool(ret.success)
  /\ \/ "message" \in DOMAIN ret /\ IsStr(ret.message)
     \/ "issueUrl" \in DOMAIN ret
     \/ {"isBatch", "results"} \subseteq DOMAIN ret /\ IsList(ret.results)

\* C8: whatever the input and the outcomes of initialization, detection,
\* validation and the stages, a handleMcpInvocation that has completed has
\* returned a response envelope with a boolean success field; a failure is
\* reported in the envelope (success=false) and never leaves the call
\* without one.
C8_AlwaysAnEnvelope ==
  \A c \in McpCalls :
    /\ calls[c].pc = "done" => IsEnvelope(calls[c].ret)
    /\ calls[c].pc # "done" => calls[c].ret = Null
    /\ (calls[c].pc = "done" /\ pipes[c][1].thrown # << >>)
         => calls[c].ret.success = Bool(FALSE)

\* one call ended on a failed initialization and another on a failed stage,
\* both with an envelope
C8_Witness ==
  \E c1 \in McpCalls, c2 \in McpCalls :
    /\ calls[c1].pc = "done"
    /\ calls[c1].ret = [success |-> Bool(FALSE),
                        message |-> Str("Failed to initialize OpenHands Resolver MCP")]
    /\ calls[c2].pc = "done"
    /\ pipes[c2][1].thrown # << >>
    /\ calls[c2].ret.success = Bool(FALSE)

\* the configuration invariants of the data model
ConfigInvariants(config) ==
  LET temperature == PropOf(config["ai"], "temperature")
      maxTokens == PropOf(config["ai"], "maxTokens")
      maxConcurrent == PropOf(config["batch"], "maxConcurrent")
      maxIssuesPerBatch == PropOf(config["batch"], "maxIssuesPerBatch")
      tokenEnvName == PropOf(config["security"], "tokenEnvName")
  IN  /\ IsNum(temperature) /\ Whole(0).n <= temperature.n /\ temperature.n <= Whole(1).n
      /\ IsNum(maxTokens) /\ Whole(100).n <= maxTokens.n /\ maxTokens.n <= Whole(10000).n
      /\ IsNum(maxConcurrent) /\ maxConcurrent.n >= Whole(1).n
      /\ IsNum(maxIssuesPerBatch) /\ maxIssuesPerBatch.n >= Whole(1).n
      /\ IsStr(tokenEnvName) /\ tokenEnvName.s # ""

\* C9 (as claimed): the configuration invariants hold in every state
\* reachable through initialize, updateConfig, saveToFile and
\* resetToDefaults.
C9_InvariantsAlwaysHold == ConfigInvariants(getConfig(Cfg))

\* the built-in defaults, as getConfig shows them
BuiltInDefaults ==
  [sec \in Sections |-> IF sec \in DefaultSections THEN Obj(OriginalDefaults[sec]) ELSE Undef]

\* C10 (as claimed): when the validation of initialize fails, initialize
\* reports failure and the configuration afterwards is the built-in
\* defaults.
C10_FailedInitLeavesDefaults ==
  (cfgRet.op = "initialize" /\ cfgRet.why = "invalid")
    => (~cfgRet.ok /\ getConfig(Cfg) = BuiltInDefaults)

\* C11 (as claimed): after resetToDefaults the configuration is the
\* built-in defaults, in every section and setting, whatever calls came
\* before it.
C11_ResetRestoresDefaults ==
  cfgRet.op = "resetToDefaults" => getConfig(Cfg) = BuiltInDefaults

\* C12 (as claimed): after an initialize that succeeded, every setting the
\* environment of that call names (a parsable AI_TEMPERATURE, AI_MAX_TOKENS
\* or MAX_CONCURRENT_ISSUES, AI_MODEL, DEBUG_MODE "true", PR_AS_DRAFT
\* "false") reads the value the environment gave, whatever the file held.
C12_EnvironmentAlwaysWins ==
  (cfgRet.op = "initialize" /\ cfgRet.ok) =>
    LET given == EnvAssignments(cfgRet.args.env)
    IN  \A i \in 1..Len(given) :
          PropOf(getConfig(Cfg)[given[i][1]], given[i][2]) = given[i][3]

\* the calls of detectTrigger and of validateTrigger that have returned
DetectCalls == {c \in CallIds : calls[c].kind = "detectTrigger"}

ValidateCalls == {c \in CallIds : calls[c].kind = "validateTrigger"}

\* the text of an input: the string itself or the text property
InputText(input) ==
  IF input = Null THEN << >>
  ELSE IF "raw" \in DOMAIN input THEN input.raw
  ELSE IF "text" \in DOMAIN input THEN input.text
  ELSE << >>

\* the number a string of decimal digits denotes
NumberOf(ds) == Whole(DigitsValue(ds, 1, Len(ds) + 1, 0))

\* C13: when the input text holds at least one issue URL, detectTrigger
\* returns a Single request (neither batch nor repository-wide) whose
\* issueUrl, owner, repo and issueNumber are those of the first URL in the
\* text, whatever else the text holds.
C13_FirstUrlIsSingle ==
  \A c \in DetectCalls :
    LET text == InputText(calls[c].input)
        urls == Positions(text, "url")
        first == text[Min(urls)]
        ret == calls[c].ret
    IN  urls # {} =>
          /\ ret # Null
          /\ ret.issueUrl = Text(UrlText(first))
          /\ ret.owner = Text(<<first.owner>>)
          /\ ret.repo = Text(<<first.repo>>)
          /\ ret.issueNumber = NumberOf(first.digits)
          /\ ~Truthy(Field(ret, "isBatch"))
          /\ ~Truthy(Field(ret, "isRepoWide"))

\* a text with the batch phrase and two URLs, foo/bar#42 first
C13_Witness ==
  \E c \in DetectCalls :
    /\ calls[c].input = [raw |-> <<FromTok, UrlTok("foo", "bar", <<"4", "2">>), UrlAt(1)>>]
    /\ calls[c].ret.owner = Text(<<"foo">>)
    /\ calls[c].ret.issueNumber = Whole(42)

\* the issue a URL names
IssueOf(u) ==
  [issueUrl |-> Text(UrlText(u)), owner |-> Text(<<u.owner>>),
   repo |-> Text(<<u.repo>>), issueNumber |-> NumberOf(u.digits)]

\* a text made of "resolve issues from" followed by one or more issue
\* URLs, joined by "and" or by blanks
IsBatchText(text) ==
  /\ Len(text) >= 2
  /\ text[1] = FromTok
  /\ \A i \in 2..Len(text) : text[i].tok = "url" \/ text[i] = WordTok("and")
  /\ \E i \in 2..Len(text) : text[i].tok = "url"

\* C14 (as claimed): for a text made of "resolve issues from" followed by
\* n >= 1 issue URLs, detectTrigger returns a Batch request whose issueList
\* holds exactly those n issues, in the order of the text.
C14_BatchPhraseGivesBatch ==
  \A c \in DetectCalls :
    LET text == InputText(calls[c].input)
        urls == SelectSeq(text, LAMBDA x : x.tok = "url")
    IN  IsBatchText(text) =>
          /\ calls[c].ret # Null
          /\ Field(calls[c].ret, "isBatch") = Bool(TRUE)
          /\ Field(calls[c].ret, "issueList")
               = List([i \in 1..Len(urls) |-> IssueOf(urls[i])])

\* the record has a non-empty name under f
HasName(obj, f) == f \in DOMAIN obj /\ IsText(obj[f]) /\ obj[f].t # << >>

\* owner, repo and issue number are there; zeroOk tells whether the issue
\* number 0 counts as an issue number
HasIssue(obj, zeroOk) ==
  /\ HasName(obj, "owner")
  /\ HasName(obj, "repo")
  /\ "issueNumber" \in DOMAIN obj
  /\ IsNum(obj.issueNumber)
  /\ zeroOk \/ obj.issueNumber.n # 0

\* structural completeness of a request of the data model
IsComplete(t, zeroOk) ==
  IF t = Null THEN FALSE
  ELSE IF Field(t, "isBatch") = Bool(TRUE)
  THEN /\ "issueList" \in DOMAIN t
       /\ IsList(t.issueList)
       /\ Len(t.issueList.l) > 0
       /\ \A i \in 1..Len(t.issueList.l) : HasIssue(t.issueList.l[i], zeroOk)
  ELSE IF Field(t, "isRepoWide") = Bool(TRUE)
  THEN HasName(t, "owner") /\ HasName(t, "repo")
  ELSE HasIssue(t, zeroOk)

SettingAt(config, parts) ==
  IF Len(parts) = 1 THEN config[parts[1]]
  ELSE PropOf(config[parts[1]], parts[2])

\* C16 (as claimed): when updateConfig(dottedPath, value) reports success,
\* the setting at dottedPath equals value afterwards.
C16_SuccessMeansSet ==
  (cfgRet.op = "updateConfig" /\ cfgRet.ok) =>
    SettingAt(getConfig(Cfg), cfgRet.args.parts) = cfgRet.args.value

\* result is target with the document doc merged into it: a section of the
\* document that is an object is laid key by key over the target's section
\* (over an empty object when the target has none), any other value of the
\* document replaces the target's, and the rest of the target is kept
IsMergeOf(result, target, doc) ==
  \A sec \in Sections :
    IF sec \notin DOMAIN doc THEN result[sec] = target[sec]
    ELSE IF IsObj(doc[sec])
    THEN (IsObj(target[sec]) \/ ~Truthy(target[sec])) =>
           /\ IsObj(result[sec])
           /\ \A key \in Keys :
                result[sec].o[key] = IF key \in DOMAIN doc[sec].o THEN doc[sec].o[key]
                                     ELSE PropOf(target[sec], key)
    ELSE result[sec] = doc[sec]

C18_InitializeFromDefaults ==
  (/\ cfgRet.op = "initialize"
   /\ cfgRet.ok
   /\ ~cfgRet.args.hasFile
   /\ cfgRet.args.env = EnvNone)
  => getConfig(Cfg) = BuiltInDefaults

\* the text holds "resolve issues in" and a slug "<owner>/<repo>" after it
HasRepoPhrase(text) ==
  \E p \in Positions(text, "in"), q \in Positions(text, "slug") : p < q

\* the first slug after the first "resolve issues in"
RepoSlug(text) ==
  text[Min({q \in Positions(text, "slug") : q > Min(Positions(text, "in"))})]

\* C19: for a text with the batch phrase and no issue URL, detectTrigger
\* returns a RepoWide request for the slug of the repository-wide phrase
\* when the text holds that phrase, and null otherwise; and no call of
\* detectTrigger ever returns a Batch request with an empty issue list.
C19_EmptyBatchFallsThrough ==
  \A c \in DetectCalls :
    LET text == InputText(calls[c].input)
        ret == calls[c].ret
    IN  /\ (Positions(text, "from") # {} /\ Positions(text, "url") = {}) =>
             IF HasRepoPhrase(text)
             THEN /\ ret # Null
                  /\ Field(ret, "isRepoWide") = Bool(TRUE)
                  /\ Field(ret, "isBatch") = Bool(FALSE)
                  /\ ret.repo = Text(<<RepoSlug(text).repo>>)
                  /\ "issueList" \notin DOMAIN ret
             ELSE ret = Null
        /\ (ret # Null /\ Truthy(Field(ret, "isBatch"))) =>
             Len(ret.issueList.l) > 0

\* both outcomes need a witness in one state each: the phrase without a
\* URL followed by the repository-wide phrase gives a RepoWide request
C19_Witness ==
  \E c \in DetectCalls :
    /\ calls[c].input = [raw |-> <<FromTok, InTok, SlugTok("foo", "bar")>>]
    /\ calls[c].ret = [isRepoWide |-> Bool(TRUE), owner |-> Text(<<"foo">>),
                        repo |-> Text(<<"bar">>), isBatch |-> Bool(FALSE)]

\* call c is a batch run whose cap batch.maxConcurrent is at least 2
RunsBatchOfTwo(c) == calls[c].pc = "batch" /\ JsLess(Whole(1), calls[c].k)

\* C20: in a batch run with batch.maxConcurrent >= 2, whatever the pipeline
\* of the first issue does (it may hold its slot forever), every other
\* issue of the batch is eventually started and eventually finished; and
\* the batch run eventually returns, unless the pipeline of the first issue
\* stays unfinished forever.
C20_StuckIssueBlocksOnlyItsSlot ==
  \A c \in CallIds :
    /\ \A i \in PipeIds \ {1} :
         (RunsBatchOfTwo(c) /\ i <= Len(calls[c].list))
           ~> (pipes[c][i].st = "done" /\ \E n \in 1..Len(calls[c].started) : calls[c].started[n] = i)
    /\ \/ <>[](pipes[c][1].st = "run")
       \/ RunsBatchOfTwo(c) ~> (calls[c].pc = "done")

\* a batch of three issues under the cap 2 has finished its second and its
\* third issue while the first one still holds its slot
C20_Witness ==
  \E c \in CallIds :
    /\ RunsBatchOfTwo(c)
    /\ calls[c].k = Whole(2)
    /\ Len(calls[c].list) = 3
    /\ pipes[c][1].st = "run"
    /\ pipes[c][2].st = "done"
    /\ pipes[c][3].st = "done"


\* C21 (as claimed): a call of saveConfigToFile, whether its write succeeds
\* or fails, leaves what getConfig and getConfigSection return as it was
\* before the call, security.tokens and security.credentials included.
C21_SaveLeavesConfigUnchanged ==
  [][(cfgOps' = cfgOps + 1 /\ cfgRet'.op = "saveConfigToFile")
       => getConfig(Cfg)' = getConfig(Cfg)]_vars


\* the envelope of a handleMcpInvocation whose initialization failed
InitFailureEnvelope ==
  [success |-> Bool(FALSE),
   message |-> Str("Failed to initialize OpenHands Resolver MCP")]

\* C22 (as claimed): a call whose initialization of the Configuration
\* Manager failed, once it has gone past the initialization, has returned
\* the failure (the envelope reporting it for handleMcpInvocation, false
\* for initialize) and has started no pipeline.
C22_ConfigFailureFailsInitialization ==
  \A c \in CallIds :
    (/\ calls[c].kind \in {"initialize", "handleMcpInvocation"}
     /\ ~calls[c].cfgOk
     /\ calls[c].pc \notin {"cfgLoad", "cfgAwait", "ghInit"})
    => /\ calls[c].pc = "done"
       /\ calls[c].ret = IF calls[c].kind = "initialize" THEN Bool(FALSE)
                          ELSE InitFailureEnvelope
       /\ \A i \in PipeIds : pipes[c][i] = NoPipe

====
